---- MODULE Spec2Model ----
(***************************************************************************)
(* Model of MessageSplitterPlugin (src/main.py): the segmenter (simple and *)
(* smart mode), the segment-count cap, calculate_delay and the dispatch    *)
(* loop of on_decorating_result.                                           *)
(*                                                                         *)
(* Texts are sequences of one-character strings.  Positions are 0-based as *)
(* in the source; text[i] of the source is text[i + 1] here.               *)
(***************************************************************************)
EXTENDS Integers, Sequences, FiniteSets, TLC

----------------------------------------------------------------------------
(* Bounds of the model *)

\* total number of characters of text in an input chain
MaxText == 3
\* number of components of an input chain
MaxChain == 2
\* number of characters of the text of a scan followed on its own
MaxLen == 4
\* segments a non-terminating scan may pile up before the model stops following it
MaxPile == 4

\* the characters texts are made of: an ordinary letter, a delimiter, a
\* table opener with its closer, and a same-glyph quote
Chars == {"a", ".", "(", ")", "'"}

----------------------------------------------------------------------------
(* Data *)

\* __init__: the opener -> closer table (the entries over Chars, and the
\* other ASCII ones)
pair_map == [c \in {"(", "[", "{", "\"", "'"} |->
               CASE c = "(" -> ")"
                 [] c = "[" -> "]"
                 [] c = "{" -> "}"
                 [] c = "\"" -> "\""
                 [] c = "'" -> "'"]

\* the same-glyph quotes of _process_text_smart
QuoteChars == {"\"", "'"}

\* Plain(text)
Plain(t) == [kind |-> "Plain", text |-> t, id |-> 0]

\* a non-text component; id tells two of them apart
Other(k) == [kind |-> "Other", text |-> <<>>, id |-> k]

\* isinstance(comp, Plain)
IsPlain(c) == c.kind = "Plain"

Min(S) == CHOOSE x \in S : \A y \in S : x <= y

----------------------------------------------------------------------------
(* The regular expressions: a split pattern is a character class with a    *)
(* repetition, or the empty pattern.                                       *)
(*   plus  : [cls]+      one : [cls]      star : [cls]*      empty : ""     *)
(*   group : ([cls]), the class in a capturing group                       *)

Pattern(k, cls) == [kind |-> k, cls |-> cls]

\* length of the longest run of characters of cls in text from position i
RECURSIVE Run(_, _, _)
Run(cls, text, i) ==
    IF i < Len(text) /\ text[i + 1] \in cls THEN 1 + Run(cls, text, i + 1) ELSE 0

\* compiled_pattern.match(text, pos=i): the length of the match anchored at
\* i, or -1 when there is none
MatchLen(pattern, text, i) ==
    LET r == Run(pattern.cls, text, i)
    IN CASE pattern.kind = "plus" -> IF r >= 1 THEN r ELSE -1
         [] pattern.kind \in {"one", "group"} -> IF r >= 1 THEN 1 ELSE -1
         [] pattern.kind = "star" -> r
         [] OTHER -> 0

\* re.fullmatch(pattern, part)
FullMatch(pattern, part) ==
    LET allIn == \A k \in 1..Len(part) : part[k] \in pattern.cls
    IN CASE pattern.kind = "plus" -> Len(part) >= 1 /\ allIn
         [] pattern.kind \in {"one", "group"} -> Len(part) = 1 /\ allIn
         [] pattern.kind = "star" -> allIn
         [] OTHER -> Len(part) = 0

\* what re.split returns for a match m of f"({pattern})": a string for each
\* capturing group, the one f"({pattern})" adds and those of the pattern
Captures(pattern, m) == IF pattern.kind = "group" THEN << m, m >> ELSE << m >>

\* re.split(f"({pattern})", text) from position pos: the text before each
\* match and the captures of the match, alternating, then the rest.  An
\* empty match is not taken at the position where the previous empty match
\* was (adv).
RECURSIVE ReSplitFrom(_, _, _, _, _)
ReSplitFrom(pattern, text, pos, last, adv) ==
    LET cand == {k \in pos..Len(text) :
                    /\ MatchLen(pattern, text, k) >= 0
                    /\ ~(adv /\ k = pos /\ MatchLen(pattern, text, k) = 0)}
    IN IF cand = {}
       THEN << SubSeq(text, last + 1, Len(text)) >>
       ELSE LET k == Min(cand)
                m == MatchLen(pattern, text, k)
            IN << SubSeq(text, last + 1, k) >>
                 \o Captures(pattern, SubSeq(text, k + 1, k + m))
                 \o ReSplitFrom(pattern, text, k + m, k + m, m = 0)

ReSplit(pattern, text) == ReSplitFrom(pattern, text, 0, 0, FALSE)

\* re.sub(clean_pattern, "", text) for clean_pattern = [cls]+ : every
\* character of cls is removed
RECURSIVE ReSubClean(_, _)
ReSubClean(cls, text) ==
    IF text = <<>> THEN <<>>
    ELSE (IF Head(text) \in cls THEN <<>> ELSE << Head(text) >>)
           \o ReSubClean(cls, Tail(text))

\* an escape inside a character class: \n is the newline, a backslash
\* before another character leaves that character
Unescape(c) == IF c = "n" THEN "\n" ELSE c

\* the characters of the class [body], as the regular expression compiler
\* reads it
RECURSIVE ClassOf(_)
ClassOf(body) ==
    IF body = <<>> THEN {}
    ELSE IF Head(body) = "\\" /\ Len(body) >= 2
    THEN {Unescape(body[2])} \cup ClassOf(SubSeq(body, 3, Len(body)))
    ELSE {Head(body)} \cup ClassOf(Tail(body))

\* the characters between [ and ] of the default of split_regex, the raw
\* string r"[...]+" : the ideographic full stop, the fullwidth question and
\* exclamation marks, ? and !, two backslashes, the letter n, the ellipsis
DefaultSplitRegex ==
    << "U+3002", "U+FF1F", "U+FF01", "?", "!", "\\", "\\", "n", "U+2026" >>

\* self.config.get("split_regex", r"[...]+") with split_regex not configured
DefaultSplitPattern == Pattern("plus", ClassOf(DefaultSplitRegex))

----------------------------------------------------------------------------
(* The segmenter *)

\* SimplePart closing the segment without the delimiter
SimplePart_DropDelimiter(pattern, st, part) ==
    IF part = <<>> THEN st
    ELSE IF FullMatch(pattern, part)
    THEN LET closed == Append(st.buffer, Plain(st.temp_text))
         IN [segments |-> Append(st.segments, closed),
             buffer |-> <<>>,
             temp_text |-> <<>>]
    ELSE [segments |-> st.segments,
          buffer |-> IF st.temp_text # <<>>
                     THEN Append(st.buffer, Plain(st.temp_text))
                     ELSE st.buffer,
          temp_text |-> part]

\* _process_text_simple, one pass of the loop over parts.
\* st = [segments, buffer, temp_text]
SimplePart(pattern, st, part) ==
    IF part = <<>> THEN st
    ELSE IF FullMatch(pattern, part)
    THEN LET closed == Append(st.buffer, Plain(st.temp_text \o part))
         IN [segments |-> Append(st.segments, closed),
             buffer |-> <<>>,
             temp_text |-> <<>>]
    ELSE [segments |-> st.segments,
          buffer |-> IF st.temp_text # <<>>
                     THEN Append(st.buffer, Plain(st.temp_text))
                     ELSE st.buffer,
          temp_text |-> part]

RECURSIVE SimpleLoop(_, _, _)
SimpleLoop(pattern, st, parts) ==
    IF parts = <<>> THEN st
    ELSE SimpleLoop(pattern, SimplePart(pattern, st, Head(parts)), Tail(parts))

\* _process_text_simple(text, pattern, segments, buffer): the segments and
\* the buffer it leaves
process_text_simple(text, pattern, segments, buffer) ==
    LET st == SimpleLoop(pattern,
                         [segments |-> segments, buffer |-> buffer, temp_text |-> <<>>],
                         ReSplit(pattern, text))
    IN [segments |-> st.segments,
        buffer |-> IF st.temp_text # <<>>
                   THEN Append(st.buffer, Plain(st.temp_text))
                   ELSE st.buffer,
        hung |-> FALSE]

\* SmartIter trying the delimiter before it looks at the stack
SmartIter_MatchFirst(text, pattern, st) ==
    LET char == text[st.i + 1]
        is_opener == char \in DOMAIN pair_map
        top == st.stack[Len(st.stack)]
        pop == SubSeq(st.stack, 1, Len(st.stack) - 1)
        consume(stk) == [st EXCEPT !.stack = stk,
                                   !.current_chunk = Append(@, char),
                                   !.i = @ + 1]
        m == MatchLen(pattern, text, st.i)
    IN IF m >= 1
       THEN LET chunk == st.current_chunk \o SubSeq(text, st.i + 1, st.i + m)
            IN [st EXCEPT !.segments = Append(@, Append(st.buffer, Plain(chunk))),
                          !.buffer = <<>>,
                          !.current_chunk = <<>>,
                          !.i = @ + m]
       ELSE IF char \in QuoteChars
       THEN IF st.stack # <<>> /\ top = char
            THEN consume(pop)
            ELSE consume(Append(st.stack, char))
       ELSE IF st.stack # <<>>
       THEN IF char = pair_map[top] THEN consume(pop)
            ELSE IF is_opener THEN consume(Append(st.stack, char))
            ELSE consume(st.stack)
       ELSE IF is_opener
       THEN consume(Append(st.stack, char))
       ELSE consume(st.stack)

\* SmartIter not pushing an opener met inside an open span
SmartIter_NoNesting(text, pattern, st) ==
    LET char == text[st.i + 1]
        is_opener == char \in DOMAIN pair_map
        top == st.stack[Len(st.stack)]
        pop == SubSeq(st.stack, 1, Len(st.stack) - 1)
        consume(stk) == [st EXCEPT !.stack = stk,
                                   !.current_chunk = Append(@, char),
                                   !.i = @ + 1]
        m == MatchLen(pattern, text, st.i)
    IN IF char \in QuoteChars
       THEN IF st.stack # <<>> /\ top = char
            THEN consume(pop)
            ELSE consume(Append(st.stack, char))
       ELSE IF st.stack # <<>>
       THEN IF char = pair_map[top] THEN consume(pop)
            ELSE consume(st.stack)
       ELSE IF is_opener
       THEN consume(Append(st.stack, char))
       ELSE IF m >= 0
       THEN LET chunk == st.current_chunk \o SubSeq(text, st.i + 1, st.i + m)
            IN [st EXCEPT !.segments = Append(@, Append(st.buffer, Plain(chunk))),
                          !.buffer = <<>>,
                          !.current_chunk = <<>>,
                          !.i = @ + m]
       ELSE consume(st.stack)

\* _process_text_smart, one iteration of the while loop at i < n.
\* st = [segments, buffer, stack, i, current_chunk]
SmartIter(text, pattern, st) ==
    LET char == text[st.i + 1]
        is_opener == char \in DOMAIN pair_map
        top == st.stack[Len(st.stack)]
        pop == SubSeq(st.stack, 1, Len(st.stack) - 1)
        consume(stk) == [st EXCEPT !.stack = stk,
                                   !.current_chunk = Append(@, char),
                                   !.i = @ + 1]
        m == MatchLen(pattern, text, st.i)
    IN IF char \in QuoteChars
       THEN IF st.stack # <<>> /\ top = char
            THEN consume(pop)
            ELSE consume(Append(st.stack, char))
       ELSE IF st.stack # <<>>
       THEN IF char = pair_map[top] THEN consume(pop)
            ELSE IF is_opener THEN consume(Append(st.stack, char))
            ELSE consume(st.stack)
       ELSE IF is_opener
       THEN consume(Append(st.stack, char))
       ELSE IF m >= 0
       THEN LET chunk == st.current_chunk \o SubSeq(text, st.i + 1, st.i + m)
            IN [st EXCEPT !.segments = Append(@, Append(st.buffer, Plain(chunk))),
                          !.buffer = <<>>,
                          !.current_chunk = <<>>,
                          !.i = @ + m]
       ELSE consume(st.stack)

\* the flush after the while loop of _process_text_smart
SmartFlush(st) ==
    IF st.current_chunk # <<>>
    THEN Append(st.buffer, Plain(st.current_chunk))
    ELSE st.buffer

\* the while loop of _process_text_smart; hung when an iteration leaves i
\* where it was (the loop then repeats that iteration for ever)
RECURSIVE SmartLoop(_, _, _)
SmartLoop(text, pattern, st) ==
    IF st.i >= Len(text)
    THEN [segments |-> st.segments, buffer |-> SmartFlush(st), hung |-> FALSE]
    ELSE LET nx == SmartIter(text, pattern, st)
         IN IF nx.i = st.i
            THEN [segments |-> nx.segments, buffer |-> nx.buffer, hung |-> TRUE]
            ELSE SmartLoop(text, pattern, nx)

\* _process_text_smart(text, pattern, segments, buffer)
process_text_smart(text, pattern, segments, buffer) ==
    SmartLoop(text, pattern,
              [segments |-> segments, buffer |-> buffer, stack |-> <<>>,
               i |-> 0, current_chunk |-> <<>>])

\* split_chain_smart, the body of the loop over the components.
\* acc = [segments, buffer, hung]
SplitComponent(acc, component, pattern, smart_mode) ==
    IF acc.hung THEN acc
    ELSE IF ~IsPlain(component)
    THEN [acc EXCEPT !.buffer = Append(@, component)]
    ELSE IF component.text = <<>> THEN acc
    ELSE IF ~smart_mode
    THEN process_text_simple(component.text, pattern, acc.segments, acc.buffer)
    ELSE process_text_smart(component.text, pattern, acc.segments, acc.buffer)

RECURSIVE SplitLoop(_, _, _, _)
SplitLoop(acc, comps, pattern, smart_mode) ==
    IF comps = <<>> THEN acc
    ELSE SplitLoop(SplitComponent(acc, Head(comps), pattern, smart_mode),
                   Tail(comps), pattern, smart_mode)

\* [seg for seg in segments if seg]
RECURSIVE NonEmpty(_)
NonEmpty(segs) ==
    IF segs = <<>> THEN <<>>
    ELSE (IF Head(segs) # <<>> THEN << Head(segs) >> ELSE <<>>) \o NonEmpty(Tail(segs))

\* the end of split_chain_smart: the open buffer becomes the last segment,
\* empty segments are dropped
SplitFinish(segments, buffer) ==
    NonEmpty(IF buffer # <<>> THEN Append(segments, buffer) ELSE segments)

\* split_chain_smart(chain, pattern, smart_mode): the segment list, or hung
split_chain_smart(chain, pattern, smart_mode) ==
    LET acc == SplitLoop([segments |-> <<>>, buffer |-> <<>>, hung |-> FALSE],
                         chain, pattern, smart_mode)
    IN [segments |-> IF acc.hung THEN <<>> ELSE SplitFinish(acc.segments, acc.buffer),
        hung |-> acc.hung]

\* segs[a..] flattened: merged_last_segment.extend(seg) for each seg
RECURSIVE Flatten(_)
Flatten(segs) ==
    IF segs = <<>> THEN <<>> ELSE Head(segs) \o Flatten(Tail(segs))

\* the cap keeping max_segs segments and merging what comes after them
CapSegments_KeepM(segs, M) ==
    IF Len(segs) > M /\ M > 0
    THEN Append(SubSeq(segs, 1, M), Flatten(SubSeq(segs, M + 1, Len(segs))))
    ELSE segs

\* on_decorating_result, step 4: the segment-count cap
CapSegments(segs, M) ==
    IF Len(segs) > M /\ M > 0
    THEN Append(SubSeq(segs, 1, M - 1), Flatten(SubSeq(segs, M, Len(segs))))
    ELSE segs

----------------------------------------------------------------------------
(* The delay.  Times are in milliseconds; log_factor is in thousandths.    *)

\* math.log(n), rounded to the thousandth, for the lengths the texts of the
\* model have
LnMilli(n) ==
    CASE n = 1 -> 0
      [] n = 2 -> 693
      [] n = 3 -> 1099
      [] n = 4 -> 1386
      [] n = 5 -> 1609
      [] n = 6 -> 1792
      [] n = 7 -> 1946
      [] n = 8 -> 2079

\* the ceiling of the log strategy: min(delay, 5.0)
DelayCeiling == 5000

\* wait_time before any call of calculate_delay
NoWait == -1

\* what self.config.get returns for the keys of calculate_delay when none
\* of them is configured
DefaultDelayConf ==
    [strategy |-> "log", random_min |-> 1000, random_max |-> 3000,
     log_base |-> 500, log_factor |-> 800, fixed_delay |-> 1500]

\* random.uniform(mn, mx): a value between the two, whichever is larger;
\* the ends and the middle stand for the interval
Uniform(mn, mx) == {mn, mx, (mn + mx) \div 2}

\* calculate_delay taking every strategy it does not know for "log"
calculate_delay_UnknownAsLog(conf, t) ==
    IF conf.strategy = "random"
    THEN Uniform(conf.random_min, conf.random_max)
    ELSE IF conf.strategy = "fixed"
    THEN {conf.fixed_delay}
    ELSE {Min({conf.log_base + (conf.log_factor * LnMilli(Len(t) + 1)) \div 1000,
               DelayCeiling})}

\* calculate_delay(text): the values it can return
calculate_delay(conf, t) ==
    IF conf.strategy = "random"
    THEN Uniform(conf.random_min, conf.random_max)
    ELSE IF conf.strategy = "log"
    THEN {Min({conf.log_base + (conf.log_factor * LnMilli(Len(t) + 1)) \div 1000,
               DelayCeiling})}
    ELSE {conf.fixed_delay}

----------------------------------------------------------------------------
(* Inputs *)

\* the texts of at most n characters over the characters cs
TextsOver(cs, n) == UNION {[1..k -> cs] : k \in 0..n}

Texts(n) == TextsOver(Chars, n)

\* the chain of Len(cut) components that cuts the text t at the positions
\* cut: component k is the PlainText t[cut[k-1]+1 .. cut[k]] where isplain[k],
\* and else a non-text component, named by its position
ChainOf(isplain, cut, t) ==
    [k \in 1..Len(cut) |->
        IF isplain[k]
        THEN Plain(SubSeq(t, (IF k = 1 THEN 0 ELSE cut[k - 1]) + 1, cut[k]))
        ELSE Other(k)]

\* the ways to cut a text of L characters into n components
Cuts(n, L) ==
    {pc \in [1..n -> BOOLEAN] \X [1..n -> 0..L] :
        /\ n = 0 => L = 0
        /\ n > 0 => pc[2][n] = L
        /\ \A k \in 1..n :
              LET before == IF k = 1 THEN 0 ELSE pc[2][k - 1]
              IN /\ before <= pc[2][k]
                 /\ ~pc[1][k] => pc[2][k] = before}

\* chain is a chain of at most maxChain components holding at most maxText
\* characters of cs
IsInputChain(c, cs, maxChain, maxText) ==
    \E n \in 0..maxChain, L \in 0..maxText :
        \E pc \in Cuts(n, L) :
            \E t \in [1..L -> cs] : c = ChainOf(pc[1], pc[2], t)

\* the delimiter class of the split patterns
Delims == {"."}

\* split_regex: [.]+  [.]  ([.])  [.]*  and the empty string
SplitPatterns == {Pattern("plus", Delims), Pattern("one", Delims),
                  Pattern("group", Delims),
                  Pattern("star", Delims), Pattern("empty", {})}

\* a pattern that matches the empty string somewhere
MatchesEmpty(pattern) == pattern.kind \in {"star", "empty"}

\* max_segments values tried by the cap
MaxCap == 3
CapChoices == -1..MaxCap

----------------------------------------------------------------------------
(* State *)

VARIABLES
    chain,            \* the input chain (result.chain)
    split_pattern,    \* config split_regex
    smart_mode,       \* config enable_smart_split
    max_segs,         \* config max_segments
    spc,              \* where split_chain_smart is
    comp_idx,         \* index of the component the loop of split_chain_smart is at
    text,             \* text of the component being scanned
    segments,         \* segments
    buffer,           \* current_chain_buffer
    stack,            \* stack of _process_text_smart
    i,                \* i of _process_text_smart
    current_chunk,    \* current_chunk of _process_text_smart
    clean_pattern,    \* config clean_regex: the class of the characters it removes
    is_llm_reply,     \* the event's __is_llm_reply
    splitter_processed, \* the event's __splitter_processed
    has_result,       \* event.get_result() is not None
    hpc,              \* where each invocation of on_decorating_result is
    last_guard,       \* the guard at which the latest invocation returned, if any
    h_segments,       \* segments of each invocation
    loop_i,           \* i of the dispatch loop of each invocation
    log,              \* what the sender and the sleep were asked, in order
    delay_conf,       \* config delay_strategy and the numbers of the strategies
    wait_time         \* wait_time, what calculate_delay returned last

\* the state of split_chain_smart taken step by step
segvars == << spc, comp_idx, text, segments, buffer, stack, i, current_chunk >>

\* the state of the event and of the invocations of on_decorating_result
hvars == << clean_pattern, is_llm_reply, splitter_processed, has_result,
            hpc, last_guard, h_segments, loop_i, log, delay_conf, wait_time >>

vars == << chain, split_pattern, smart_mode, max_segs, segvars, hvars >>

\* the invocations of on_decorating_result on the event that get past the
\* guards, numbered in the order they do; an invocation that returns at a
\* guard leaves nothing behind and is not counted
NumCalls == 2
Calls == 1..NumCalls

\* the handler state while the segmenter is followed on its own
HandlerIdle ==
    /\ clean_pattern = {}
    /\ is_llm_reply = FALSE
    /\ splitter_processed = FALSE
    /\ has_result = TRUE
    /\ hpc = [t \in Calls |-> "idle"]
    /\ last_guard = "none"
    /\ h_segments = [t \in Calls |-> <<>>]
    /\ loop_i = [t \in Calls |-> 0]
    /\ log = <<>>
    /\ delay_conf = DefaultDelayConf
    /\ wait_time = NoWait

----------------------------------------------------------------------------
(* The segmenter, step by step: split_chain_smart with the while loop of   *)
(* _process_text_smart taken one iteration at a time, then the cap.        *)

SegInit ==
    /\ IsInputChain(chain, Chars, MaxChain, MaxText)
    /\ split_pattern \in SplitPatterns
    /\ smart_mode \in BOOLEAN
    /\ max_segs = 0
    /\ spc = "loop"
    /\ comp_idx = 1
    /\ text = <<>>
    /\ segments = <<>>
    /\ buffer = <<>>
    /\ stack = <<>>
    /\ i = 0
    /\ current_chunk = <<>>
    /\ HandlerIdle

scanvars == << text, stack, i, current_chunk >>
inputs == << chain, split_pattern, smart_mode, max_segs >>

\* a non-text component goes to the open buffer
SegOther ==
    /\ spc = "loop" /\ comp_idx <= Len(chain)
    /\ ~IsPlain(chain[comp_idx])
    /\ buffer' = Append(buffer, chain[comp_idx])
    /\ comp_idx' = comp_idx + 1
    /\ UNCHANGED << hvars, inputs, spc, segments, scanvars >>

\* a PlainText component without text is skipped
SegSkipEmpty ==
    /\ spc = "loop" /\ comp_idx <= Len(chain)
    /\ IsPlain(chain[comp_idx]) /\ chain[comp_idx].text = <<>>
    /\ comp_idx' = comp_idx + 1
    /\ UNCHANGED << hvars, inputs, spc, segments, buffer, scanvars >>

\* simple mode: _process_text_simple on the component's text
SegSimple ==
    /\ spc = "loop" /\ comp_idx <= Len(chain)
    /\ IsPlain(chain[comp_idx]) /\ chain[comp_idx].text # <<>>
    /\ ~smart_mode
    /\ LET r == process_text_simple(chain[comp_idx].text, split_pattern, segments, buffer)
       IN /\ segments' = r.segments
          /\ buffer' = r.buffer
    /\ comp_idx' = comp_idx + 1
    /\ UNCHANGED << hvars, inputs, spc, scanvars >>

\* smart mode: _process_text_smart starts on the component's text
SmartBegin ==
    /\ spc = "loop" /\ comp_idx <= Len(chain)
    /\ IsPlain(chain[comp_idx]) /\ chain[comp_idx].text # <<>>
    /\ smart_mode
    /\ spc' = "scan"
    /\ text' = chain[comp_idx].text
    /\ stack' = <<>>
    /\ i' = 0
    /\ current_chunk' = <<>>
    /\ UNCHANGED << hvars, inputs, comp_idx, segments, buffer >>

\* one iteration of the while loop
SmartStep ==
    /\ spc = "scan" /\ i < Len(text)
    /\ Len(segments) < MaxPile
    /\ LET nx == SmartIter(text, split_pattern,
                           [segments |-> segments, buffer |-> buffer, stack |-> stack,
                            i |-> i, current_chunk |-> current_chunk])
       IN /\ segments' = nx.segments
          /\ buffer' = nx.buffer
          /\ stack' = nx.stack
          /\ i' = nx.i
          /\ current_chunk' = nx.current_chunk
    /\ UNCHANGED << hvars, inputs, spc, comp_idx, text >>

\* the while loop ends: the open chunk goes to the buffer
SmartEnd ==
    /\ spc = "scan" /\ i >= Len(text)
    /\ buffer' = SmartFlush([buffer |-> buffer, current_chunk |-> current_chunk])
    /\ spc' = "loop"
    /\ comp_idx' = comp_idx + 1
    /\ UNCHANGED << hvars, inputs, segments, scanvars >>

\* the end of split_chain_smart
SegFinish ==
    /\ spc = "loop" /\ comp_idx > Len(chain)
    /\ segments' = SplitFinish(segments, buffer)
    /\ spc' = "split"
    /\ UNCHANGED << hvars, inputs, comp_idx, buffer, scanvars >>

\* the cap of on_decorating_result on the segment list
SegCap ==
    /\ spc = "split"
    /\ \E M \in CapChoices :
          /\ max_segs' = M
          /\ segments' = CapSegments(segments, M)
    /\ spc' = "capped"
    /\ UNCHANGED << hvars, chain, split_pattern, smart_mode, comp_idx, buffer, scanvars >>

SegNext ==
    \/ SegOther \/ SegSkipEmpty \/ SegSimple
    \/ SmartBegin \/ SmartStep \/ SmartEnd
    \/ SegFinish \/ SegCap

SpecSeg == SegInit /\ [][SegNext]_vars

\* the scan of one text on its own: split_chain_smart in smart mode on a
\* chain of one PlainText component
ScanInit ==
    /\ chain \in {<< Plain(t) >> : t \in Texts(MaxLen) \ {<<>>}}
    /\ split_pattern \in SplitPatterns
    /\ smart_mode = TRUE
    /\ max_segs = 0
    /\ spc = "loop"
    /\ comp_idx = 1
    /\ text = <<>>
    /\ segments = <<>>
    /\ buffer = <<>>
    /\ stack = <<>>
    /\ i = 0
    /\ current_chunk = <<>>
    /\ HandlerIdle

ScanNext == SmartBegin \/ SmartStep \/ SmartEnd \/ SegFinish

SpecScan == ScanInit /\ [][ScanNext]_vars

\* the characters of the texts segmented with the default pattern: letters,
\* the backslash, the newline and a mark
DefaultTextChars == {"a", "n", "\\", "\n", "!"}

\* split_chain_smart with split_regex not configured
DefaultInit ==
    /\ IsInputChain(chain, DefaultTextChars, MaxChain, MaxText)
    /\ split_pattern = DefaultSplitPattern
    /\ smart_mode \in BOOLEAN
    /\ max_segs = 0
    /\ spc = "loop"
    /\ comp_idx = 1
    /\ text = <<>>
    /\ segments = <<>>
    /\ buffer = <<>>
    /\ stack = <<>>
    /\ i = 0
    /\ current_chunk = <<>>
    /\ HandlerIdle

SpecDefault == DefaultInit /\ [][SegNext]_vars

\* calculate_delay on its own: a configuration and a text, then the call

\* delay_strategy: the three strategies and a value that is none of them
DelayStrategies == {"random", "log", "fixed", "typing"}

\* the configurations of the delay
DelayConfs ==
    {[strategy |-> st, random_min |-> rnd[1], random_max |-> rnd[2],
      log_base |-> 500, log_factor |-> lf, fixed_delay |-> fd] :
        st \in DelayStrategies,
        rnd \in {<< 1000, 3000 >>, << 2000, 2000 >>},
        lf \in {800, 4000},
        fd \in {0, 1500, 2000}}

DelayInit ==
    /\ delay_conf \in DelayConfs
    /\ text \in TextsOver({"a", "."}, MaxText)
    /\ wait_time = NoWait
    /\ spc = "delay"
    /\ chain = <<>>
    /\ split_pattern = DefaultSplitPattern
    /\ smart_mode = TRUE
    /\ max_segs = 0
    /\ comp_idx = 1
    /\ segments = <<>>
    /\ buffer = <<>>
    /\ stack = <<>>
    /\ i = 0
    /\ current_chunk = <<>>
    /\ clean_pattern = {}
    /\ is_llm_reply = FALSE
    /\ splitter_processed = FALSE
    /\ has_result = TRUE
    /\ hpc = [t \in Calls |-> "idle"]
    /\ last_guard = "none"
    /\ h_segments = [t \in Calls |-> <<>>]
    /\ loop_i = [t \in Calls |-> 0]
    /\ log = <<>>

\* wait_time = self.calculate_delay(text)
CalcDelay ==
    /\ spc = "delay"
    /\ wait_time' \in calculate_delay(delay_conf, text)
    /\ spc' = "delayed"
    /\ UNCHANGED << chain, split_pattern, smart_mode, max_segs, comp_idx, text,
                    segments, buffer, stack, i, current_chunk,
                    clean_pattern, is_llm_reply, splitter_processed, has_result,
                    hpc, last_guard, h_segments, loop_i, log, delay_conf >>

SpecDelay == DelayInit /\ [][CalcDelay]_vars

----------------------------------------------------------------------------
(* Claims about the segmenter and the cap *)

\* the texts of the PlainText components, concatenated in order
RECURSIVE PlainConcat(_)
PlainConcat(comps) ==
    IF comps = <<>> THEN <<>>
    ELSE (IF IsPlain(Head(comps)) THEN Head(comps).text ELSE <<>>)
           \o PlainConcat(Tail(comps))

\* the non-text components, in order
OthersOf(comps) == SelectSeq(comps, LAMBDA c : ~IsPlain(c))

\* the components of segments a..b, in order
RECURSIVE Joined(_, _, _)
Joined(segs, a, b) == IF a > b THEN <<>> ELSE segs[a] \o Joined(segs, a + 1, b)

\* C1: for a split pattern that cannot match the empty string, in both
\* modes, the text of the segments returned by split_chain_smart, read in
\* order, is the text of the input chain, and the non-text components come
\* in the order of the input; also after the cap.
C1_ContentPreserved ==
    (spc \in {"split", "capped"} /\ ~MatchesEmpty(split_pattern)) =>
        /\ PlainConcat(Joined(segments, 1, Len(segments))) = PlainConcat(chain)
        /\ OthersOf(Joined(segments, 1, Len(segments))) = OthersOf(chain)

\* C2: in smart mode an iteration of the scan closes a segment only with
\* the stack empty before and after it, and while the stack is not empty
\* every pending opener is still in the open chunk.
C2_SplitOnlyOnEmptyStack ==
    [][spc = "scan" =>
         /\ (segments' # segments => stack = <<>> /\ stack' = <<>>)
         /\ (stack' # <<>> =>
               /\ Len(stack') <= Len(current_chunk')
               /\ \A k \in 1..Len(stack') :
                     \E j \in 1..Len(current_chunk') : current_chunk'[j] = stack'[k])]_vars

\* C2 witness: the scan of "(.)." passed the delimiter inside the span and
\* closed one segment at the delimiter after it
C2_Witness ==
    /\ spc = "scan" /\ split_pattern.kind = "plus"
    /\ text = << "(", ".", ")", "." >>
    /\ i = 4 /\ stack = <<>>
    /\ segments = << << Plain(<< "(", ".", ")", "." >>) >> >>

\* total number of components of segments a..b
RECURSIVE SumLen(_, _, _)
SumLen(segs, a, b) == IF a > b THEN 0 ELSE Len(segs[a]) + SumLen(segs, a + 1, b)

\* C3: the cap leaves the list alone when max_segs <= 0 or there are at
\* most max_segs segments; otherwise it returns max_segs segments, the first
\* max_segs - 1 unchanged and the last holding the components of segments
\* max_segs..n in their order.
C3_Cap ==
    [][(spc = "split" /\ spc' = "capped") =>
         LET n == Len(segments)
             M == max_segs'
         IN IF M <= 0 \/ n <= M
            THEN segments' = segments
            ELSE /\ Len(segments') = M
                 /\ \A k \in 1..(M - 1) : segments'[k] = segments[k]
                 /\ Len(segments'[M]) = SumLen(segments, M, n)
                 /\ \A j \in M..n : \A k \in 1..Len(segments[j]) :
                       segments'[M][SumLen(segments, M, j - 1) + k] = segments[j][k]]_vars

\* C3 witness: more than max_segs segments were capped to max_segs >= 2,
\* and the merged segment holds components of several segments
C3_Witness ==
    /\ spc = "capped" /\ max_segs >= 2
    /\ Len(segments) = max_segs
    /\ Len(split_chain_smart(chain, split_pattern, smart_mode).segments) > max_segs + 1
    /\ Len(segments[max_segs]) >= 3

\* the delimiters of a text: the non-empty matches of the pattern found
\* from left to right, none overlapping another, as << start, end >>
\* (the match is text[start+1 .. end])
RECURSIVE DelimMatches(_, _, _)
DelimMatches(pattern, t, pos) ==
    LET cand == {k \in pos..(Len(t) - 1) : MatchLen(pattern, t, k) >= 1}
    IN IF cand = {} THEN <<>>
       ELSE LET k == Min(cand)
            IN << << k, k + MatchLen(pattern, t, k) >> >>
                 \o DelimMatches(pattern, t, k + MatchLen(pattern, t, k))

\* C11: in simple mode the pass over a PlainText component closes one
\* segment for each delimiter of the text, in order; the text of the segment
\* (after what the open buffer held) runs from the end of the delimiter
\* before it to the end of its own delimiter, and the text after the last
\* delimiter is added to the open buffer and closes no segment.
C11_SimpleSplitAtEveryDelimiter ==
    [][(spc = "loop" /\ ~smart_mode /\ comp_idx' = comp_idx + 1
          /\ IsPlain(chain[comp_idx]) /\ chain[comp_idx].text # <<>>) =>
         LET t == chain[comp_idx].text
             ms == DelimMatches(split_pattern, t, 0)
             n == Len(segments)
             from(j) == IF j = 1 THEN 0 ELSE ms[j - 1][2]
             rest == SubSeq(t, from(Len(ms) + 1) + 1, Len(t))
         IN /\ Len(segments') = n + Len(ms)
            /\ \A k \in 1..n : segments'[k] = segments[k]
            /\ \A j \in 1..Len(ms) :
                  LET seg == segments'[n + j]
                      old == IF j = 1 THEN buffer ELSE <<>>
                  IN /\ Len(seg) > Len(old)
                     /\ SubSeq(seg, 1, Len(old)) = old
                     /\ \A k \in (Len(old) + 1)..Len(seg) : IsPlain(seg[k])
                     /\ PlainConcat(SubSeq(seg, Len(old) + 1, Len(seg)))
                          = SubSeq(t, from(j) + 1, ms[j][2])
            /\ LET old == IF ms = <<>> THEN buffer ELSE <<>>
               IN /\ Len(buffer') >= Len(old)
                  /\ SubSeq(buffer', 1, Len(old)) = old
                  /\ \A k \in (Len(old) + 1)..Len(buffer') : IsPlain(buffer'[k])
                  /\ PlainConcat(SubSeq(buffer', Len(old) + 1, Len(buffer'))) = rest]_vars

\* C12: with the empty split pattern, in both modes, no segment is closed
\* while the components are gone through, and split_chain_smart returns at
\* most one segment, holding the text and the non-text components of the
\* chain in order.
C12_EmptyPatternNoSplit ==
    split_pattern.kind = "empty" =>
        /\ spc \in {"loop", "scan"} => segments = <<>>
        /\ spc = "split" =>
              /\ Len(segments) <= 1
              /\ PlainConcat(Joined(segments, 1, Len(segments))) = PlainConcat(chain)
              /\ OthersOf(Joined(segments, 1, Len(segments))) = OthersOf(chain)

\* the delimiter characters named for the default pattern: the sentence
\* terminators, the question and exclamation marks, the newline, the ellipsis
NamedDelims == {"U+3002", "U+FF1F", "U+FF01", "?", "!", "\n", "U+2026"}

\* C13: with split_regex not configured, the segments returned for a text
\* without brackets and quotes are cut exactly after the runs of named
\* delimiter characters: every segment but the last ends with one, and
\* inside a segment no other character follows one.  So a newline ends a
\* segment, and a letter or a backslash does not.
C13_DefaultDelimiters ==
    (spc = "split" /\ split_pattern = DefaultSplitPattern) =>
        \A k \in 1..Len(segments) :
            LET T == PlainConcat(segments[k])
            IN /\ k < Len(segments) => (T # <<>> /\ T[Len(T)] \in NamedDelims)
               /\ \A p \in 1..(Len(T) - 1) :
                     T[p] \in NamedDelims => T[p + 1] \in NamedDelims

\* C14: with delay_strategy "fixed", or any value that is neither "random"
\* nor "log", calculate_delay returns fixed_delay, whatever the text.
C14_FixedDelay ==
    (spc = "delayed" /\ delay_conf.strategy \notin {"random", "log"}) =>
        wait_time = delay_conf.fixed_delay

\* C14 witness: a strategy that is none of the three returned fixed_delay
\* for a text for which the log strategy gives another value
C14_Witness ==
    /\ spc = "delayed" /\ delay_conf.strategy = "typing"
    /\ text # <<>>
    /\ wait_time = delay_conf.fixed_delay
    /\ wait_time \notin calculate_delay([delay_conf EXCEPT !.strategy = "log"], text)

\* C15: every iteration of the while loop of the smart-mode scan moves i
\* forward, also when the pattern matches at i and the match is empty, and
\* the scan closes at most one segment for each character of the text.
C15_ScanAdvances ==
    [][(spc = "scan" /\ spc' = "scan") =>
         /\ i' > i
         /\ Len(segments') <= Len(text)]_vars

\* the reference rules of the bracket and quote stack: the same-glyph
\* quotes, the openers of the table with their closers, and the stack after
\* the character c
RefQuotes == {"\"", "'"}
RefOpeners == {"(", "[", "{"}
RefCloser(o) == CASE o = "(" -> ")" [] o = "[" -> "]" [] o = "{" -> "}"
                  [] OTHER -> o
RefStep(S, c) ==
    LET top == S[Len(S)]
        pop == SubSeq(S, 1, Len(S) - 1)
    IN IF c \in RefQuotes
       THEN IF S # <<>> /\ top = c THEN pop ELSE Append(S, c)
       ELSE IF S # <<>>
       THEN IF c = RefCloser(top) THEN pop
            ELSE IF c \in RefOpeners THEN Append(S, c)
            ELSE S
       ELSE IF c \in RefOpeners THEN Append(S, c) ELSE S

\* C19: in smart mode the scan of every PlainText component starts with an
\* empty stack, whatever the component before it left open; every iteration
\* of the scan takes the stack to what the reference rules give for the
\* character at i; the stack holds openers and quotes of the table only.
C19_StackFollowsRules ==
    [][/\ (spc = "loop" /\ spc' = "scan") => stack' = <<>>
       /\ (spc = "scan" /\ spc' = "scan") => stack' = RefStep(stack, text[i + 1])
       /\ \A k \in 1..Len(stack') : stack'[k] \in RefOpeners \cup RefQuotes]_vars

\* C19 witness: the scan of a second component has pushed an opener onto an
\* open quote, after the component before it ended with an opener pending
C19_Witness ==
    /\ spc = "scan" /\ comp_idx = 2
    /\ IsPlain(chain[1]) /\ chain[1].text = << "(" >>
    /\ stack = << "'", "(" >>

\* no PlainText component of the chain holds an opener or a quote
NoSpans(comps) ==
    \A k \in 1..Len(comps) : \A p \in 1..Len(comps[k].text) :
        comps[k].text[p] \notin RefOpeners \cup RefQuotes

\* C20: for a chain without openers and quotes and a pattern [cls]+, the
\* segment list split_chain_smart returns in one mode is the list it
\* returns in the other mode: as many segments, with the same components.
C20_ModesAgree ==
    (spc = "split" /\ split_pattern.kind = "plus" /\ NoSpans(chain)) =>
        LET other == split_chain_smart(chain, split_pattern, ~smart_mode)
        IN ~other.hung /\ segments = other.segments

\* C20 witness: a chain of a text and a non-text component, without opener
\* or quote, was split in smart mode into several segments
C20_Witness ==
    /\ spc = "split" /\ split_pattern.kind = "plus" /\ smart_mode
    /\ NoSpans(chain) /\ OthersOf(chain) # <<>>
    /\ Len(segments) >= 2
    /\ \E k \in 1..Len(segments) : Len(PlainConcat(segments[k])) >= 2

----------------------------------------------------------------------------
(* on_llm_response and on_decorating_result on one event.  An invocation   *)
(* runs without interruption from one await to the next; its awaits are    *)
(* the send_message of a segment and the sleep after it.                   *)

\* the characters of the replies, the chains of the replies
ReplyChars == {"a", "."}
MaxReplyText == 2
MaxReplyChain == 2

\* split_regex of the replies: [.]+  [.]
ReplySplitPatterns == {Pattern("plus", Delims), Pattern("one", Delims)}

\* clean_regex: not configured (""), [a]+ or [.]+
CleanPatterns == {{}, {"a"}, {"."}}

\* max_segments: 7 when not configured
DefaultMaxSegs == 7
MaxSegsChoices == {1, 2, DefaultMaxSegs}

Init ==
    /\ has_result \in BOOLEAN
    /\ IF has_result
       THEN IsInputChain(chain, ReplyChars, MaxReplyChain, MaxReplyText)
       ELSE chain = <<>>
    /\ split_pattern \in ReplySplitPatterns
    /\ smart_mode \in BOOLEAN
    /\ max_segs \in MaxSegsChoices
    /\ clean_pattern \in CleanPatterns
    /\ is_llm_reply = FALSE
    /\ splitter_processed = FALSE
    /\ hpc = [t \in Calls |-> "idle"]
    /\ last_guard = "none"
    /\ h_segments = [t \in Calls |-> <<>>]
    /\ loop_i = [t \in Calls |-> 0]
    /\ log = <<>>
    /\ delay_conf = DefaultDelayConf
    /\ wait_time = NoWait
    /\ spc = "loop"
    /\ comp_idx = 1
    /\ text = <<>>
    /\ segments = <<>>
    /\ buffer = <<>>
    /\ stack = <<>>
    /\ i = 0
    /\ current_chunk = <<>>

config == << split_pattern, smart_mode, max_segs, clean_pattern, delay_conf >>

\* an entry of the log
Event(ev, t, idx, ch) == [ev |-> ev, task |-> t, idx |-> idx, chain |-> ch]

\* the guards without the test of __splitter_processed
GuardPasses_IgnoreProcessed(llm, processed) == llm

\* the guards of on_decorating_result: the reply is flagged and not yet processed
GuardPasses(llm, processed) == llm /\ ~processed

\* the pass-through test with < for <=
PassThrough_Strict(segs, clean) == Len(segs) < 1 /\ clean = {}

\* "if len(segments) <= 1 and not clean_pattern: return"
PassThrough(segs, clean) == Len(segs) <= 1 /\ clean = {}

\* the cleanup of a segment: re.sub on every PlainText component with text
CleanSegment(seg, clean) ==
    IF clean = {} THEN seg
    ELSE [k \in 1..Len(seg) |->
            IF IsPlain(seg[k]) /\ seg[k].text # <<>>
            THEN Plain(ReSubClean(clean, seg[k].text))
            ELSE seg[k]]

\* text_content
RECURSIVE TextContent(_)
TextContent(seg) ==
    IF seg = <<>> THEN <<>>
    ELSE (IF IsPlain(Head(seg)) THEN Head(seg).text ELSE <<>>) \o TextContent(Tail(seg))

\* the skip test without is_only_text
ShouldSkip_TextOnly(seg) == TextContent(seg) = <<>>

\* "if is_only_text and not text_content: continue", on the cleaned segment
ShouldSkip(seg) ==
    (\A k \in 1..Len(seg) : IsPlain(seg[k])) /\ TextContent(seg) = <<>>

\* "if i < len(segments) - 1": a sleep follows the send of segment idx
SleepsAfter(segs, idx) == idx < Len(segs) - 1

\* a failed send ending the loop
AfterFailure_Abort(segs, idx) == Len(segs)

\* a failed send tried again
AfterFailure_Retry(segs, idx) == idx

\* where the loop goes on after the send of segment idx raised
AfterFailure(segs, idx) == idx + 1

\* the dispatch loop leaving at the first segment it finds empty
RECURSIVE Advance_StopAtSkip(_, _, _)
Advance_StopAtSkip(segs, idx, clean) ==
    IF idx >= Len(segs) THEN [segs |-> segs, idx |-> idx]
    ELSE IF segs[idx + 1] = <<>> THEN [segs |-> segs, idx |-> Len(segs)]
    ELSE LET cleaned == [segs EXCEPT ![idx + 1] = CleanSegment(@, clean)]
         IN IF ShouldSkip(cleaned[idx + 1])
            THEN [segs |-> cleaned, idx |-> Len(segs)]
            ELSE [segs |-> cleaned, idx |-> idx]

\* the dispatch loop from iteration idx up to its next send_message: the
\* segments it visits are cleaned, the empty ones passed over.
\* idx = Len(segs) when the loop ends without another send.
RECURSIVE Advance(_, _, _)
Advance(segs, idx, clean) ==
    IF idx >= Len(segs) THEN [segs |-> segs, idx |-> idx]
    ELSE IF segs[idx + 1] = <<>> THEN Advance(segs, idx + 1, clean)
    ELSE LET cleaned == [segs EXCEPT ![idx + 1] = CleanSegment(@, clean)]
         IN IF ShouldSkip(cleaned[idx + 1])
            THEN Advance(cleaned, idx + 1, clean)
            ELSE [segs |-> cleaned, idx |-> idx]

\* invocation t goes on with the loop at iteration idx, after the events evs:
\* up to the next send_message, or to the end and result.chain.clear()
RunLoop(t, segs, idx, evs) ==
    LET adv == Advance(segs, idx, clean_pattern)
    IN /\ h_segments' = [h_segments EXCEPT ![t] = adv.segs]
       /\ loop_i' = [loop_i EXCEPT ![t] = adv.idx]
       /\ IF adv.idx < Len(segs)
          THEN /\ hpc' = [hpc EXCEPT ![t] = "send"]
               /\ log' = log \o evs \o << Event("send", t, adv.idx, adv.segs[adv.idx + 1]) >>
               /\ chain' = chain
          ELSE /\ hpc' = [hpc EXCEPT ![t] = "done"]
               /\ log' = log \o evs \o << Event("clear", t, adv.idx, <<>>) >>
               /\ chain' = <<>>

\* on_llm_response
LlmResponse ==
    /\ is_llm_reply' = TRUE
    /\ UNCHANGED << chain, config, segvars, splitter_processed, has_result,
                    hpc, last_guard, h_segments, loop_i, log, wait_time >>

\* the next invocation of on_decorating_result: the first that has not started
Starts(t) == hpc[t] = "idle" /\ \A u \in 1..(t - 1) : hpc[u] # "idle"

\* on_decorating_result returns at a guard: nothing of the event changes
InvokeGuarded(t) ==
    /\ Starts(t)
    /\ ~GuardPasses(is_llm_reply, splitter_processed)
    /\ last_guard' = IF ~is_llm_reply THEN "not_llm" ELSE "processed"
    /\ UNCHANGED << chain, config, segvars, is_llm_reply, splitter_processed, has_result,
                    hpc, h_segments, loop_i, log, wait_time >>

\* on_decorating_result passes the guards: up to its first await or return
Invoke(t) ==
    /\ Starts(t)
    /\ GuardPasses(is_llm_reply, splitter_processed)
    /\ splitter_processed' = TRUE
    /\ UNCHANGED << config, segvars, is_llm_reply, has_result, last_guard, wait_time >>
    /\ IF ~has_result \/ chain = <<>>
       THEN /\ hpc' = [hpc EXCEPT ![t] = "ret_empty"]
            /\ UNCHANGED << chain, h_segments, loop_i, log >>
       ELSE LET r == split_chain_smart(chain, split_pattern, smart_mode)
                segs == CapSegments(r.segments, max_segs)
            IN IF r.hung
               THEN /\ hpc' = [hpc EXCEPT ![t] = "hung"]
                    /\ UNCHANGED << chain, h_segments, loop_i, log >>
               ELSE IF PassThrough(segs, clean_pattern)
               THEN /\ hpc' = [hpc EXCEPT ![t] = "ret_single"]
                    /\ h_segments' = [h_segments EXCEPT ![t] = segs]
                    /\ UNCHANGED << chain, loop_i, log >>
               ELSE RunLoop(t, segs, 0, <<>>)

\* send_message returns
SendOk(t) ==
    /\ hpc[t] = "send"
    /\ UNCHANGED << config, segvars, is_llm_reply, splitter_processed, has_result, last_guard >>
    /\ IF SleepsAfter(h_segments[t], loop_i[t])
       THEN /\ hpc' = [hpc EXCEPT ![t] = "sleep"]
            /\ wait_time' \in calculate_delay(delay_conf,
                                               TextContent(h_segments[t][loop_i[t] + 1]))
            /\ log' = log \o << Event("ok", t, loop_i[t], <<>>),
                                Event("sleep", t, loop_i[t], <<>>) >>
            /\ UNCHANGED << chain, h_segments, loop_i >>
       ELSE /\ RunLoop(t, h_segments[t], loop_i[t] + 1, << Event("ok", t, loop_i[t], <<>>) >>)
            /\ wait_time' = wait_time

\* send_message raises an Exception
SendFail(t) ==
    /\ hpc[t] = "send"
    /\ UNCHANGED << config, segvars, is_llm_reply, splitter_processed, has_result, last_guard >>
    /\ RunLoop(t, h_segments[t], AfterFailure(h_segments[t], loop_i[t]),
               << Event("fail", t, loop_i[t], <<>>) >>)
    /\ wait_time' = wait_time

\* asyncio.sleep returns
Wake(t) ==
    /\ hpc[t] = "sleep"
    /\ UNCHANGED << config, segvars, is_llm_reply, splitter_processed, has_result, last_guard >>
    /\ RunLoop(t, h_segments[t], loop_i[t] + 1, << Event("wake", t, loop_i[t], <<>>) >>)
    /\ wait_time' = wait_time

\* the cancellation caught by "except Exception" like a failed send
Cancel_Caught(t) ==
    /\ hpc[t] \in {"send", "sleep"}
    /\ UNCHANGED << config, segvars, is_llm_reply, splitter_processed, has_result,
                    last_guard, wait_time >>
    /\ RunLoop(t, h_segments[t], loop_i[t] + 1, << Event("cancel", t, loop_i[t], <<>>) >>)

\* the task of the invocation is cancelled at an await: CancelledError is
\* not an Exception, the handler ends there
Cancel(t) ==
    /\ hpc[t] \in {"send", "sleep"}
    /\ hpc' = [hpc EXCEPT ![t] = "cancelled"]
    /\ log' = Append(log, Event("cancel", t, loop_i[t], <<>>))
    /\ UNCHANGED << chain, config, segvars, is_llm_reply, splitter_processed, has_result,
                    last_guard, h_segments, loop_i, wait_time >>

Next ==
    \/ LlmResponse
    \/ \E t \in Calls : InvokeGuarded(t)
    \/ \E t \in Calls : Invoke(t)
    \/ \E t \in Calls : SendOk(t)
    \/ \E t \in Calls : SendFail(t)
    \/ \E t \in Calls : Wake(t)
    \/ \E t \in Calls : Cancel(t)

Spec == Init /\ [][Next]_vars

----------------------------------------------------------------------------
(* Claims about on_decorating_result *)

\* the invocations that passed the guards
Passed == {t \in Calls : hpc[t] # "idle"}

\* the positions of the log holding an event ev of invocation t
EventsOf(t, ev) == {k \in 1..Len(log) : log[k].task = t /\ log[k].ev = ev}

\* how many times segment idx of invocation t was handed to the sender
SendCount(t, idx) == Cardinality({k \in EventsOf(t, "send") : log[k].idx = idx})

\* a segment with a non-text component or with text
Sendable(seg) == (\E k \in 1..Len(seg) : ~IsPlain(seg[k])) \/ PlainConcat(seg) # <<>>

\* C4: however many invocations there are on the event and wherever an
\* earlier one is suspended, at most one passes the guards, and an
\* invocation that finds the processed flag set returns without segmenting,
\* sending or changing the chain.
C4_ProcessedOnce ==
    [][/\ Cardinality(Passed') <= 1
       /\ \A k \in 1..Len(log') : log'[k].task \in Passed'
       /\ splitter_processed =>
             /\ \A t \in Calls : hpc[t] = "idle" => hpc'[t] = "idle"
             /\ last_guard' # last_guard =>
                   /\ last_guard' = "processed"
                   /\ log' = log
                   /\ chain' = chain
                   /\ h_segments' = h_segments
                   /\ loop_i' = loop_i]_vars

\* C4 witness: an invocation returned at the processed flag while the one
\* that set it is suspended in the delay between two segments
C4_Witness ==
    \E t \in Calls :
        /\ hpc[t] = "sleep"
        /\ last_guard = "processed"
        /\ chain # <<>>

\* C5: an invocation on an event that is not flagged, or whose result or
\* chain is empty, or whose capped segment list has at most one segment with
\* no cleanup pattern configured, returns without a call to the sender and
\* leaves the chain as it was.
C5_NoOp ==
    [][(/\ \/ last_guard' # last_guard
           \/ \E t \in Calls : hpc[t] = "idle" /\ hpc'[t] # "idle"
        /\ \/ ~is_llm_reply
           \/ ~has_result
           \/ chain = <<>>
           \/ LET r == split_chain_smart(chain, split_pattern, smart_mode)
              IN /\ ~r.hung
                 /\ Len(CapSegments(r.segments, max_segs)) <= 1
                 /\ clean_pattern = {})
       => /\ \A t \in Calls : hpc'[t] \in {hpc[t], "ret_empty", "ret_single"}
          /\ log' = log
          /\ chain' = chain]_vars

\* C5 witness: a flagged reply that splits into several segments, capped to
\* one with no cleanup pattern, was let through untouched
C5_Witness ==
    \E t \in Calls :
        /\ hpc[t] = "ret_single"
        /\ max_segs = 1 /\ clean_pattern = {}
        /\ Len(split_chain_smart(chain, split_pattern, smart_mode).segments) > 1
        /\ log = <<>>

\* C6: a segment whose send failed is handed to the sender once only, and
\* when the loop has run to its end every later segment that is not empty
\* after cleanup was handed to the sender exactly once.
C6_FailureIsolated ==
    \A t \in Calls : \A k \in EventsOf(t, "fail") :
        /\ SendCount(t, log[k].idx) = 1
        /\ hpc[t] = "done" =>
             \A j \in (log[k].idx + 1)..(Len(h_segments[t]) - 1) :
                 Sendable(h_segments[t][j + 1]) => SendCount(t, j) = 1

\* C6 witness: the loop ran to its end, a send failed and a later segment
\* was sent
C6_Witness ==
    \E t \in Calls :
        /\ hpc[t] = "done"
        /\ \E k \in EventsOf(t, "fail") : \E l \in EventsOf(t, "send") :
              l > k /\ log[l].idx > log[k].idx

\* C7: the segments of a reply are handed to the sender in strictly
\* increasing order, each at most once, and a send starts only when the send
\* before it has ended and the delay after it, if one was started, is over.
C7_Sequential ==
    \A t \in Calls :
        /\ \A k, l \in EventsOf(t, "send") : k < l => log[k].idx < log[l].idx
        /\ \A l \in EventsOf(t, "send") :
              LET before == {k \in 1..(l - 1) : log[k].task = t}
              IN before # {} =>
                    LET k == CHOOSE x \in before : \A y \in before : y <= x
                    IN log[k].ev \in {"ok", "fail", "wake"}
        /\ \A l \in EventsOf(t, "sleep") :
              l > 1 /\ log[l - 1].ev = "ok" /\ log[l - 1].task = t
                    /\ log[l - 1].idx = log[l].idx

\* C7 witness: a segment was sent after the send and the delay of the
\* segment before it
C7_Witness ==
    \E t \in Calls : \E l \in EventsOf(t, "send") :
        /\ l > 3
        /\ log[l - 1].ev = "wake" /\ log[l - 2].ev = "sleep" /\ log[l - 3].ev = "ok"
        /\ log[l].idx >= 1

\* C8: when the loop has run to its end, no delay was awaited after the
\* last segment that was handed to the sender.
C8_NoDelayAfterLastSend ==
    \A t \in Calls :
        hpc[t] = "done" =>
            \A k \in EventsOf(t, "sleep") : \E l \in EventsOf(t, "send") : l > k

\* C9: a segment is handed to the sender if and only if, after cleanup, it
\* holds a non-text component or text; the segments after a skipped one are
\* still looked at.
C9_SentIffNotEmpty ==
    \A t \in Calls :
        /\ \A k \in EventsOf(t, "send") :
              /\ Sendable(log[k].chain)
              /\ log[k].chain = h_segments[t][log[k].idx + 1]
        /\ hpc[t] = "done" =>
              \A j \in 0..(Len(h_segments[t]) - 1) :
                  Sendable(h_segments[t][j + 1]) <=> SendCount(t, j) = 1

\* C9 witness: the loop ran to its end, a segment emptied by the cleanup
\* was skipped and a later one sent, and a segment of non-text components
\* alone was sent
C9_Witness ==
    \E t \in Calls :
        /\ hpc[t] = "done"
        /\ \E j \in 0..(Len(h_segments[t]) - 1) :
              /\ ~Sendable(h_segments[t][j + 1])
              /\ \E l \in EventsOf(t, "send") :
                    log[l].idx > j /\ PlainConcat(log[l].chain) = <<>>

\* C10: no chain handed to the sender holds a PlainText component with
\* empty content.
C10_NoEmptyPlainSent ==
    \A k \in 1..Len(log) :
        log[k].ev = "send" =>
            \A c \in 1..Len(log[k].chain) :
                IsPlain(log[k].chain[c]) => log[k].chain[c].text # <<>>

\* segment idx of invocation t has been dealt with: it was empty after
\* cleanup, or it was handed to the sender and the send has ended
Processed(t, idx) ==
    \/ ~Sendable(h_segments[t][idx + 1])
    \/ /\ SendCount(t, idx) = 1
       /\ \E k \in EventsOf(t, "ok") \cup EventsOf(t, "fail") : log[k].idx = idx

\* C16: when the dispatch loop has run to its end the input chain is empty,
\* whatever was skipped or failed; and the chain is emptied only then, with
\* every segment dealt with and no send or delay pending.
C16_ClearedAtEnd ==
    [][/\ \A t \in Calls : hpc'[t] = "done" => chain' = <<>>
       /\ chain' # chain =>
             /\ chain' = <<>>
             /\ \E t \in Calls :
                   /\ hpc[t] # "done" /\ hpc'[t] = "done"
                   /\ Len(h_segments'[t]) > 1 \/ clean_pattern # {}
                   /\ \A j \in 0..(Len(h_segments'[t]) - 1) : Processed(t, j)']_vars

\* C16 witness: the loop ran to its end over a segment that was skipped and
\* a send that failed, and the chain is empty
C16_Witness ==
    \E t \in Calls :
        /\ hpc[t] = "done" /\ chain = <<>>
        /\ EventsOf(t, "fail") # {}
        /\ \E j \in 0..(Len(h_segments[t]) - 1) : ~Sendable(h_segments[t][j + 1])

\* the positions of the log where an invocation was cancelled in the delay
\* after a send
CancelledInDelay(l) ==
    {k \in 2..Len(l) : l[k].ev = "cancel" /\ l[k - 1].ev = "sleep"
                          /\ l[k - 1].task = l[k].task}

\* C17: once an invocation was cancelled while it waited between two
\* segments, nothing more is handed to the sender; what was handed to the
\* sender before stays as it was, and the cancellation itself changes
\* neither the chain nor the segments.
C17_CancelStopsDispatch ==
    [][/\ SubSeq(log', 1, Len(log)) = log
       /\ \A k \in CancelledInDelay(log') :
             /\ \A n \in (k + 1)..Len(log') : log'[n].ev # "send"
             /\ chain' = chain
             /\ h_segments' = h_segments]_vars

\* C17 witness: an invocation was cancelled in the delay after a send that
\* succeeded, with a later segment that is not empty still to send
C17_Witness ==
    \E t \in Calls :
        /\ hpc[t] = "cancelled"
        /\ Len(log) \in CancelledInDelay(log)
        /\ EventsOf(t, "ok") # {}
        /\ \E j \in (loop_i[t] + 1)..(Len(h_segments[t]) - 1) :
              (\E c \in 1..Len(h_segments[t][j + 1]) : ~IsPlain(h_segments[t][j + 1][c]))

\* C18: after every send of a segment that is not the last of the list,
\* whether it returned or raised, the next thing the invocation does is to
\* await the delay of that segment.
C18_DelayAfterEverySend ==
    \A t \in Calls :
        \A k \in EventsOf(t, "ok") \cup EventsOf(t, "fail") :
            (log[k].idx < Len(h_segments[t]) - 1 /\ k < Len(log)) =>
                /\ log[k + 1].ev = "sleep"
                /\ log[k + 1].task = t
                /\ log[k + 1].idx = log[k].idx

====
